---- MODULE Spec2Model ----
(***************************************************************************)
(* AWSAutomation-PythonScript-CustomVPC.py as a state machine.             *)
(*                                                                         *)
(* The script is a straight line of find-or-create functions, each a few   *)
(* calls to the provider (boto3 ec2 / elbv2).  One action of the model is  *)
(* one provider call together with the local code around it.  The provider *)
(* account is shared state; a run of the script is a process with its own  *)
(* position and local variables.  Several runs may exist: one after the    *)
(* other (Spec) or interleaved call by call (RaceSpec).                    *)
(***************************************************************************)
EXTENDS Naturals, Integers, Sequences, FiniteSets, TLC

VARIABLES
    aws,        \* the provider account: one collection per resource kind
    keyFile,    \* os.path.exists(KEY_PATH): the local private-key file
    status,     \* per run: "idle", "running", "done" (line 393 reached), "failed"
    pc,         \* per run: index into Flow of the statement being executed
    step,       \* per run: the provider call inside that statement that is next
    env,        \* per run: the module-level variables assigned by lines 326-384
    loc,        \* per run: the function-local id (vpc, subnet, igw, eip, nat, rt, sg)
    err,        \* per run: "none", or the class of the exception that ended it
    made,       \* per run: the statements (Flow indices) that issued a creating call
    keyWarn,    \* per run: line 66 was executed (key in AWS, no local file)
    seen,       \* per run: what the run's dependent calls met: the state of the NAT
                \* gateway at create_route, of the load balancer at create_listener,
                \* of the instances at register_targets
    base,       \* per run: env of the preceding run of this terminal if it ended "done"
    serial,     \* per run: the number of the run (1 for the first one started)
    started,    \* number of runs started so far
    turn,       \* the run that made the latest step (0: none yet)
    preempts,   \* times a run in progress was overtaken by a step of another run
    wrote,      \* per run: the run wrote the key file (lines 70-71)
    dbCall      \* per run: the call of get_or_create_rds (line 388): the provider
                \* call that is next, the error create_db_subnet_group raised,
                \* and whether create_db_instance was issued

vars ==
    <<aws, keyFile, status, pc, step, env, loc, err, made, keyWarn, seen, base, serial,
      started, turn, preempts, wrote, dbCall>>

\* ------------------------------------------------------------------ bounds
\* runs of the script started one after the other (Spec)
MaxRuns == 2
\* runs of the script started in all when they may overlap (RaceSpec)
MaxRaceRuns == 2
\* times the scheduler may switch away from a run that is in progress
MaxPreempts == 1

Runs == {1, 2}

\* ------------------------------------------------------------ the script
\* Lines 324-385: the execution flow.  Each entry is one statement: the
\* function called, the module variables passed (args), the literal key
\* (name / CIDR / destination / path), an option, and the variable assigned.
Stmt(fn, args, key, opt, out) ==
    [fn |-> fn, args |-> args, key |-> key, opt |-> opt, out |-> out]

Statements == <<
    Stmt("keypair",      <<>>, "salman-key", "", "none"),
    Stmt("vpc",          <<>>, "salman-vpc", "", "vpc"),
    Stmt("subnet",       <<"vpc">>, "10.0.1.0/24", "public", "public_subnet_1"),
    Stmt("subnet",       <<"vpc">>, "10.0.4.0/24", "public", "public_subnet_2"),
    Stmt("subnet",       <<"vpc">>, "10.0.2.0/24", "", "private_subnet_1"),
    Stmt("subnet",       <<"vpc">>, "10.0.3.0/24", "", "private_subnet_2"),
    Stmt("igw",          <<"vpc">>, "", "", "igw"),
    Stmt("nat",          <<"public_subnet_1">>, "", "", "nat_id"),
    Stmt("route_table",  <<"vpc">>, "public-rt", "", "public_rt"),
    Stmt("ensure_route", <<"public_rt", "igw">>, "0.0.0.0/0", "igw_id", "none"),
    Stmt("associate_rt", <<"public_rt", "public_subnet_1">>, "", "", "none"),
    Stmt("associate_rt", <<"public_rt", "public_subnet_2">>, "", "", "none"),
    Stmt("route_table",  <<"vpc">>, "private-rt", "", "private_rt"),
    Stmt("ensure_route", <<"private_rt", "nat_id">>, "0.0.0.0/0", "nat_id", "none"),
    Stmt("associate_rt", <<"private_rt", "private_subnet_1">>, "", "", "none"),
    Stmt("associate_rt", <<"private_rt", "private_subnet_2">>, "", "", "none"),
    Stmt("sg",           <<"vpc">>, "public-sg", "", "public_sg"),
    Stmt("sg",           <<"vpc">>, "private-sg", "", "private_sg"),
    Stmt("instance",     <<"private_subnet_1", "private_sg">>, "private-ec2-1", "", "private_instance_1"),
    Stmt("instance",     <<"private_subnet_2", "private_sg">>, "private-ec2-2", "", "private_instance_2"),
    Stmt("instance",     <<"public_subnet_1", "public_sg">>, "public-ec2-1", "", "public_instance"),
    Stmt("alb",          <<"public_subnet_1", "public_subnet_2", "public_sg">>, "salman-alb", "", "alb_arn"),
    Stmt("target_group", <<"vpc">>, "salman-TG", "", "tg_arn"),
    Stmt("register",     <<"tg_arn", "private_instance_1", "private_instance_2">>, "", "", "none"),
    Stmt("listener",     <<"alb_arn", "tg_arn">>, "", "", "listener_arn"),
    Stmt("health_check", <<"tg_arn">>, "/index.html", "", "none")
>>

\* the execution flow with the internet gateway resolved before the VPC
Mut_Flow ==
    [i \in DOMAIN Statements |->
        IF i = 2 THEN Statements[7] ELSE IF i = 7 THEN Statements[2] ELSE Statements[i]]

\* The interpreter executes the statements top to bottom.
Flow == [i \in DOMAIN Statements |-> Statements[i]]

\* the module-level variables of the script; 0 is "not assigned yet"
EnvVars == {Flow[i].out : i \in DOMAIN Flow} \ {"none"}

NoEnv == [v \in EnvVars |-> 0]

NoSeen == [nat |-> "none", lb |-> "none", targets |-> {}]

\* get_or_create_rds not entered
NoDbCall == [step |-> "none", raised |-> "none", issued |-> FALSE]

Cur(r) == Flow[pc[r]]

Arg(r, k) == env[r][Cur(r).args[k]]

At(r, fn, s) ==
    /\ status[r] = "running"
    /\ Cur(r).fn = fn
    /\ step[r] = s

\* The provider's id of the resource the current statement of run r creates:
\* ids are opaque to the script, so one is made from the run's number and the
\* statement (an id says nothing about the order of creation).  0 is no id.
NewId(r) == serial[r] * (Len(Flow) + 1) + pc[r]

\* the collection f with the new resource x under id i
Put(f, i, x) == [j \in DOMAIN f \cup {i} |-> IF j = i THEN x ELSE f[j]]

\* vpcs[0], subnets[0], ... : the first element of a describe_* response
First(S) == CHOOSE i \in S : \A j \in S : i <= j

\* ------------------------------------------------------- control of a run
\* Run r makes a step.  Switching to r while another run is in progress is a
\* preemption; their number is bounded.
Sched(r) ==
    LET preempting == turn \notin {0, r} /\ status[turn] = "running" IN
    /\ preempting => preempts < MaxPreempts
    /\ turn' = r
    /\ preempts' = IF preempting THEN preempts + 1 ELSE preempts

\* stay in the current function: next provider call s, local id l
Goto(r, s, l, creating) ==
    /\ step' = [step EXCEPT ![r] = s]
    /\ loc' = [loc EXCEPT ![r] = l]
    /\ made' = [made EXCEPT ![r] = IF creating THEN @ \cup {pc[r]} ELSE @]
    /\ UNCHANGED <<status, pc, env, err>>
    /\ Sched(r)

\* the function returns id; the statement assigns it; the next statement starts.
\* After the last statement line 393 prints the success message.
Return(r, id, creating) ==
    /\ env' = [env EXCEPT ![r] =
                 IF Cur(r).out = "none" THEN @ ELSE [@ EXCEPT ![Cur(r).out] = id]]
    /\ pc' = [pc EXCEPT ![r] = IF pc[r] = Len(Flow) THEN @ ELSE @ + 1]
    /\ status' = [status EXCEPT ![r] = IF pc[r] = Len(Flow) THEN "done" ELSE @]
    /\ step' = [step EXCEPT ![r] = "begin"]
    /\ loc' = [loc EXCEPT ![r] = 0]
    /\ made' = [made EXCEPT ![r] = IF creating THEN @ \cup {pc[r]} ELSE @]
    /\ UNCHANGED err
    /\ Sched(r)

\* the provider call raises; nothing at module level catches it: the script
\* ends with a traceback at the current statement
Raise(r, e) ==
    /\ status' = [status EXCEPT ![r] = "failed"]
    /\ err' = [err EXCEPT ![r] = e]
    /\ UNCHANGED <<pc, step, env, loc, made>>
    /\ Sched(r)

\* ------------------------------------------------------------ initial state
Init ==
    /\ aws = [key |-> FALSE, vpcs |-> <<>>, subnets |-> <<>>, igws |-> <<>>,
              eips |-> {}, nats |-> <<>>, rts |-> <<>>, sgs |-> <<>>,
              instances |-> <<>>, lbs |-> <<>>, tgs |-> <<>>, listeners |-> <<>>,
              dbGroups |-> {}, dbs |-> {}]
    /\ keyFile = FALSE
    /\ status = [r \in Runs |-> "idle"]
    /\ pc = [r \in Runs |-> 1]
    /\ step = [r \in Runs |-> "begin"]
    /\ env = [r \in Runs |-> NoEnv]
    /\ loc = [r \in Runs |-> 0]
    /\ err = [r \in Runs |-> "none"]
    /\ made = [r \in Runs |-> {}]
    /\ keyWarn = [r \in Runs |-> FALSE]
    /\ seen = [r \in Runs |-> NoSeen]
    /\ base = [r \in Runs |-> NoEnv]
    /\ serial = [r \in Runs |-> 0]
    /\ started = 0
    /\ wrote = [r \in Runs |-> FALSE]
    /\ dbCall = [r \in Runs |-> NoDbCall]
    /\ turn = 0
    /\ preempts = 0

\* --------------------------------------------------------------- key pair
\* a lookup that goes on to write the key file when the key pair exists and
\* the file does not
Mut_DescribeKeyPairs(r) ==
    /\ At(r, "keypair", "begin")
    /\ IF aws.key
         THEN IF keyFile THEN Return(r, 0, FALSE) ELSE Goto(r, "write", 0, FALSE)
         ELSE Goto(r, "create", 0, FALSE)
    /\ UNCHANGED <<aws, keyFile, keyWarn, seen, base, serial, started, wrote, dbCall>>

\* line 61: describe_key_pairs; lines 62-66 when it exists, line 68 when not
DescribeKeyPairs(r) ==
    /\ At(r, "keypair", "begin")
    /\ IF aws.key
         THEN /\ Return(r, 0, FALSE)
              /\ keyWarn' = [keyWarn EXCEPT ![r] = ~keyFile]
         ELSE /\ Goto(r, "create", 0, FALSE)
              /\ UNCHANGED keyWarn
    /\ UNCHANGED <<aws, keyFile, seen, base, serial, started, wrote, dbCall>>

\* line 69: create_key_pair (InvalidKeyPair.Duplicate when the name is taken)
CreateKeyPair(r) ==
    /\ At(r, "keypair", "create")
    /\ IF aws.key
         THEN Raise(r, "duplicate") /\ UNCHANGED aws
         ELSE Goto(r, "write", 0, TRUE) /\ aws' = [aws EXCEPT !.key = TRUE]
    /\ UNCHANGED <<keyFile, keyWarn, seen, base, serial, started, wrote, dbCall>>

\* lines 70-76: write the key material to KEY_PATH
WriteKeyFile(r) ==
    /\ At(r, "keypair", "write")
    /\ keyFile' = TRUE
    /\ wrote' = [wrote EXCEPT ![r] = TRUE]
    /\ Return(r, 0, FALSE)
    /\ UNCHANGED <<aws, keyWarn, seen, base, serial, started, dbCall>>

\* -------------------------------------------------------------------- VPC
\* a filter that matches no VPC (a tag key the script never sets)
Mut_FindVpcs == {}

\* line 84: the VPCs whose Name tag is VPC_NAME
FindVpcs == {i \in DOMAIN aws.vpcs : aws.vpcs[i].tagged}

DescribeVpcs(r) ==
    /\ At(r, "vpc", "begin")
    /\ IF FindVpcs # {}
         THEN Return(r, First(FindVpcs), FALSE)
         ELSE Goto(r, "create", 0, FALSE)
    /\ UNCHANGED <<aws, keyFile, keyWarn, seen, base, serial, started, wrote, dbCall>>

\* line 88
CreateVpc(r) ==
    /\ At(r, "vpc", "create")
    /\ aws' = [aws EXCEPT !.vpcs =
                 Put(@, NewId(r), [tagged |-> FALSE, dnsSupport |-> FALSE, dnsHostnames |-> FALSE])]
    /\ Goto(r, "tag", NewId(r), TRUE)
    /\ UNCHANGED <<keyFile, keyWarn, seen, base, serial, started, wrote, dbCall>>

\* line 89
CreateTagsVpc(r) ==
    /\ At(r, "vpc", "tag")
    /\ aws' = [aws EXCEPT !.vpcs[loc[r]].tagged = TRUE]
    /\ Goto(r, "dns_support", loc[r], FALSE)
    /\ UNCHANGED <<keyFile, keyWarn, seen, base, serial, started, wrote, dbCall>>

\* line 90
ModifyVpcDnsSupport(r) ==
    /\ At(r, "vpc", "dns_support")
    /\ aws' = [aws EXCEPT !.vpcs[loc[r]].dnsSupport = TRUE]
    /\ Goto(r, "dns_hostnames", loc[r], FALSE)
    /\ UNCHANGED <<keyFile, keyWarn, seen, base, serial, started, wrote, dbCall>>

\* lines 91-93
ModifyVpcDnsHostnames(r) ==
    /\ At(r, "vpc", "dns_hostnames")
    /\ aws' = [aws EXCEPT !.vpcs[loc[r]].dnsHostnames = TRUE]
    /\ Return(r, loc[r], FALSE)
    /\ UNCHANGED <<keyFile, keyWarn, seen, base, serial, started, wrote, dbCall>>

\* ----------------------------------------------------------------- subnet
\* line 96: the subnets of vpc with this CIDR block
FindSubnets(vpc, cidr) ==
    {i \in DOMAIN aws.subnets : aws.subnets[i].vpc = vpc /\ aws.subnets[i].cidr = cidr}

DescribeSubnets(r) ==
    /\ At(r, "subnet", "begin")
    /\ LET found == FindSubnets(Arg(r, 1), Cur(r).key) IN
         IF found # {}
           THEN Return(r, First(found), FALSE)
           ELSE Goto(r, "create", 0, FALSE)
    /\ UNCHANGED <<aws, keyFile, keyWarn, seen, base, serial, started, wrote, dbCall>>

\* line 100: create_subnet (InvalidSubnet.Conflict when the VPC already has the block)
CreateSubnet(r) ==
    /\ At(r, "subnet", "create")
    /\ IF FindSubnets(Arg(r, 1), Cur(r).key) # {}
         THEN Raise(r, "duplicate") /\ UNCHANGED aws
         ELSE /\ aws' = [aws EXCEPT !.subnets =
                           Put(@, NewId(r), [vpc |-> Arg(r, 1), cidr |-> Cur(r).key,
                                      named |-> FALSE, mapPublic |-> FALSE])]
              /\ Goto(r, "tag", NewId(r), TRUE)
    /\ UNCHANGED <<keyFile, keyWarn, seen, base, serial, started, wrote, dbCall>>

\* lines 101-102, and 104-105 when not public
CreateTagsSubnet(r) ==
    /\ At(r, "subnet", "tag")
    /\ aws' = [aws EXCEPT !.subnets[loc[r]].named = TRUE]
    /\ IF Cur(r).opt = "public"
         THEN Goto(r, "modify", loc[r], FALSE)
         ELSE Return(r, loc[r], FALSE)
    /\ UNCHANGED <<keyFile, keyWarn, seen, base, serial, started, wrote, dbCall>>

\* lines 103-105
ModifySubnetAttribute(r) ==
    /\ At(r, "subnet", "modify")
    /\ aws' = [aws EXCEPT !.subnets[loc[r]].mapPublic = TRUE]
    /\ Return(r, loc[r], FALSE)
    /\ UNCHANGED <<keyFile, keyWarn, seen, base, serial, started, wrote, dbCall>>

\* ------------------------------------------------------- internet gateway
\* line 108: the internet gateways attached to vpc
FindIgws(vpc) == {i \in DOMAIN aws.igws : aws.igws[i].vpc = vpc}

DescribeInternetGateways(r) ==
    /\ At(r, "igw", "begin")
    /\ LET found == FindIgws(Arg(r, 1)) IN
         IF found # {}
           THEN Return(r, First(found), FALSE)
           ELSE Goto(r, "create", 0, FALSE)
    /\ UNCHANGED <<aws, keyFile, keyWarn, seen, base, serial, started, wrote, dbCall>>

\* line 112: the new gateway is attached to nothing (vpc 0)
CreateInternetGateway(r) ==
    /\ At(r, "igw", "create")
    /\ aws' = [aws EXCEPT !.igws = Put(@, NewId(r), [vpc |-> 0])]
    /\ Goto(r, "attach", NewId(r), TRUE)
    /\ UNCHANGED <<keyFile, keyWarn, seen, base, serial, started, wrote, dbCall>>

\* lines 113-115: attach_internet_gateway (Resource.AlreadyAssociated when the
\* VPC has a gateway attached already)
AttachInternetGateway(r) ==
    /\ At(r, "igw", "attach")
    /\ IF FindIgws(Arg(r, 1)) # {}
         THEN Raise(r, "duplicate") /\ UNCHANGED aws
         ELSE /\ aws' = [aws EXCEPT !.igws[loc[r]].vpc = Arg(r, 1)]
              /\ Return(r, loc[r], FALSE)
    /\ UNCHANGED <<keyFile, keyWarn, seen, base, serial, started, wrote, dbCall>>

\* ------------------------------------------------------------ NAT gateway
\* line 127: the NAT gateways of the subnet, in whatever state
FindNats(subnet) == {i \in DOMAIN aws.nats : aws.nats[i].subnet = subnet}

DescribeNatGateways(r) ==
    /\ At(r, "nat", "begin")
    /\ LET found == FindNats(Arg(r, 1)) IN
         IF found # {}
           THEN Return(r, First(found), FALSE)
           ELSE Goto(r, "allocate", 0, FALSE)
    /\ UNCHANGED <<aws, keyFile, keyWarn, seen, base, serial, started, wrote, dbCall>>

\* line 131: allocate_address; the allocation id is the local eip
AllocateAddress(r) ==
    /\ At(r, "nat", "allocate")
    /\ aws' = [aws EXCEPT !.eips = @ \cup {NewId(r)}]
    /\ Goto(r, "create", NewId(r), TRUE)
    /\ UNCHANGED <<keyFile, keyWarn, seen, base, serial, started, wrote, dbCall>>

\* line 132: create_nat_gateway returns at once, the gateway is "pending"
CreateNatGateway(r) ==
    /\ At(r, "nat", "create")
    /\ aws' = [aws EXCEPT !.nats =
                 Put(@, NewId(r), [subnet |-> Arg(r, 1), eip |-> loc[r], state |-> "pending"])]
    /\ Goto(r, "wait", NewId(r), TRUE)
    /\ UNCHANGED <<keyFile, keyWarn, seen, base, serial, started, wrote, dbCall>>

\* line 120: the condition that ends wait_for_nat
NatReady(state) == state = "available"

\* lines 119-122, 133-134: wait_for_nat describes the gateway and returns when
\* it is ready; when it is not, the loop goes on to sleep
WaitForNat(r) ==
    /\ At(r, "nat", "wait")
    /\ IF NatReady(aws.nats[loc[r]].state)
         THEN Return(r, loc[r], FALSE)
         ELSE Goto(r, "sleep", loc[r], FALSE)
    /\ UNCHANGED <<aws, keyFile, keyWarn, seen, base, serial, started, wrote, dbCall>>

\* lines 123-124, 118: time.sleep(10), then the loop polls again; no count, no
\* deadline
NatSleep(r) ==
    /\ At(r, "nat", "sleep")
    /\ Goto(r, "wait", loc[r], FALSE)
    /\ UNCHANGED <<aws, keyFile, keyWarn, seen, base, serial, started, wrote, dbCall>>

\* ------------------------------------------------------------ route table
\* line 137: the route tables of vpc whose Name tag is name
FindRouteTables(vpc, name) ==
    {i \in DOMAIN aws.rts : aws.rts[i].vpc = vpc /\ aws.rts[i].name = name}

DescribeRouteTables(r) ==
    /\ At(r, "route_table", "begin")
    /\ LET found == FindRouteTables(Arg(r, 1), Cur(r).key) IN
         IF found # {}
           THEN Return(r, First(found), FALSE)
           ELSE Goto(r, "create", 0, FALSE)
    /\ UNCHANGED <<aws, keyFile, keyWarn, seen, base, serial, started, wrote, dbCall>>

\* line 141: the new table has no Name tag, no route added by the script, no
\* association
CreateRouteTable(r) ==
    /\ At(r, "route_table", "create")
    /\ aws' = [aws EXCEPT !.rts =
                 Put(@, NewId(r), [vpc |-> Arg(r, 1), name |-> "", routes |-> {}, assocs |-> {}])]
    /\ Goto(r, "tag", NewId(r), TRUE)
    /\ UNCHANGED <<keyFile, keyWarn, seen, base, serial, started, wrote, dbCall>>

\* lines 142-144
CreateTagsRouteTable(r) ==
    /\ At(r, "route_table", "tag")
    /\ aws' = [aws EXCEPT !.rts[loc[r]].name = Cur(r).key]
    /\ Return(r, loc[r], FALSE)
    /\ UNCHANGED <<keyFile, keyWarn, seen, base, serial, started, wrote, dbCall>>

\* lines 147-150: is there a route with this destination block?
HasRoute(rt, destination) ==
    \E x \in aws.rts[rt].routes : x.destination = destination

\* ensure_route without the look at the routes: create_route every time
Mut_DescribeRoutes(r) ==
    /\ At(r, "ensure_route", "begin")
    /\ Goto(r, "create", 0, FALSE)
    /\ UNCHANGED <<aws, keyFile, keyWarn, seen, base, serial, started, wrote, dbCall>>

\* lines 147-150: return when there is one, else go on to create_route
DescribeRoutes(r) ==
    /\ At(r, "ensure_route", "begin")
    /\ IF HasRoute(Arg(r, 1), Cur(r).key)
         THEN Return(r, 0, FALSE)
         ELSE Goto(r, "create", 0, FALSE)
    /\ UNCHANGED <<aws, keyFile, keyWarn, seen, base, serial, started, wrote, dbCall>>

\* lines 151-156: create_route through the internet gateway (igw_id=) or the
\* NAT gateway (nat_id=); RouteAlreadyExists when the block is routed already
CreateRoute(r) ==
    /\ At(r, "ensure_route", "create")
    /\ IF HasRoute(Arg(r, 1), Cur(r).key)
         THEN Raise(r, "duplicate") /\ UNCHANGED <<aws, seen>>
         ELSE /\ aws' = [aws EXCEPT !.rts[Arg(r, 1)].routes =
                           @ \cup {[destination |-> Cur(r).key, via |-> Cur(r).opt,
                                    target |-> Arg(r, 2)]}]
              /\ seen' = [seen EXCEPT ![r].nat =
                            IF Cur(r).opt = "nat_id" /\ Arg(r, 2) \in DOMAIN aws.nats
                              THEN aws.nats[Arg(r, 2)].state ELSE @]
              /\ Return(r, 0, TRUE)
    /\ UNCHANGED <<keyFile, keyWarn, base, serial, started, wrote, dbCall>>

\* lines 159-162: is the subnet associated with this table?
DescribeAssociations(r) ==
    /\ At(r, "associate_rt", "begin")
    /\ IF Arg(r, 2) \in aws.rts[Arg(r, 1)].assocs
         THEN Return(r, 0, FALSE)
         ELSE Goto(r, "associate", 0, FALSE)
    /\ UNCHANGED <<aws, keyFile, keyWarn, seen, base, serial, started, wrote, dbCall>>

\* line 163: associate_route_table (Resource.AlreadyAssociated when the subnet
\* is associated with a table already)
AssociateRouteTable(r) ==
    /\ At(r, "associate_rt", "associate")
    /\ IF \E t \in DOMAIN aws.rts : Arg(r, 2) \in aws.rts[t].assocs
         THEN Raise(r, "duplicate") /\ UNCHANGED aws
         ELSE /\ aws' = [aws EXCEPT !.rts[Arg(r, 1)].assocs = @ \cup {Arg(r, 2)}]
              /\ Return(r, 0, TRUE)
    /\ UNCHANGED <<keyFile, keyWarn, seen, base, serial, started, wrote, dbCall>>

\* --------------------------------------------------------- security group
\* line 169: the security groups of vpc with this group name
FindSgs(name, vpc) ==
    {i \in DOMAIN aws.sgs : aws.sgs[i].name = name /\ aws.sgs[i].vpc = vpc}

DescribeSecurityGroups(r) ==
    /\ At(r, "sg", "begin")
    /\ LET found == FindSgs(Cur(r).key, Arg(r, 1)) IN
         IF found # {}
           THEN Return(r, First(found), FALSE)
           ELSE Goto(r, "create", 0, FALSE)
    /\ UNCHANGED <<aws, keyFile, keyWarn, seen, base, serial, started, wrote, dbCall>>

\* line 173: create_security_group (InvalidGroup.Duplicate when the VPC has a
\* group of this name); the new group has no ingress rule
CreateSecurityGroup(r) ==
    /\ At(r, "sg", "create")
    /\ IF FindSgs(Cur(r).key, Arg(r, 1)) # {}
         THEN Raise(r, "duplicate") /\ UNCHANGED aws
         ELSE /\ aws' = [aws EXCEPT !.sgs =
                           Put(@, NewId(r), [name |-> Cur(r).key, vpc |-> Arg(r, 1), rules |-> FALSE])]
              /\ Goto(r, "authorize", NewId(r), TRUE)
    /\ UNCHANGED <<keyFile, keyWarn, seen, base, serial, started, wrote, dbCall>>

\* lines 174-176
AuthorizeSecurityGroupIngress(r) ==
    /\ At(r, "sg", "authorize")
    /\ aws' = [aws EXCEPT !.sgs[loc[r]].rules = TRUE]
    /\ Return(r, loc[r], FALSE)
    /\ UNCHANGED <<keyFile, keyWarn, seen, base, serial, started, wrote, dbCall>>

\* -------------------------------------------------------------- instances
\* line 183: the instances whose Name tag is name, in whatever state
FindInstances(name) == {i \in DOMAIN aws.instances : aws.instances[i].name = name}

DescribeInstances(r) ==
    /\ At(r, "instance", "begin")
    /\ LET found == FindInstances(Cur(r).key) IN
         IF found # {}
           THEN Return(r, First(found), FALSE)
           ELSE Goto(r, "run", 0, FALSE)
    /\ UNCHANGED <<aws, keyFile, keyWarn, seen, base, serial, started, wrote, dbCall>>

\* lines 189-201: run_instances tags the instance in the same call and returns
\* while it is "pending"
RunInstances(r) ==
    /\ At(r, "instance", "run")
    /\ aws' = [aws EXCEPT !.instances =
                 Put(@, NewId(r), [name |-> Cur(r).key, subnet |-> Arg(r, 1), sg |-> Arg(r, 2),
                            state |-> "pending"])]
    /\ Return(r, NewId(r), TRUE)
    /\ UNCHANGED <<keyFile, keyWarn, seen, base, serial, started, wrote, dbCall>>

\* ---------------------------------------------------------- load balancer
\* line 208: the load balancers of this name (LoadBalancerNotFoundException
\* when there is none, caught at line 211)
FindLbs(name) == {i \in DOMAIN aws.lbs : aws.lbs[i].name = name}

DescribeLoadBalancers(r) ==
    /\ At(r, "alb", "begin")
    /\ LET found == FindLbs(Cur(r).key) IN
         IF found # {}
           THEN Return(r, First(found), FALSE)
           ELSE Goto(r, "create", 0, FALSE)
    /\ UNCHANGED <<aws, keyFile, keyWarn, seen, base, serial, started, wrote, dbCall>>

\* lines 212-221: create_load_balancer returns while the balancer is
\* "provisioning".  The provider answers a repeated call with the same name and
\* settings with the existing balancer, and one with other settings with
\* DuplicateLoadBalancerName.
CreateLoadBalancer(r) ==
    /\ At(r, "alb", "create")
    /\ LET found == FindLbs(Cur(r).key)
           subnets == {Arg(r, 1), Arg(r, 2)}
       IN  IF found = {}
             THEN /\ aws' = [aws EXCEPT !.lbs =
                               Put(@, NewId(r), [name |-> Cur(r).key, subnets |-> subnets,
                                          sg |-> Arg(r, 3), state |-> "provisioning"])]
                  /\ Return(r, NewId(r), TRUE)
             ELSE IF /\ aws.lbs[First(found)].subnets = subnets
                     /\ aws.lbs[First(found)].sg = Arg(r, 3)
                    THEN Return(r, First(found), TRUE) /\ UNCHANGED aws
                    ELSE Raise(r, "duplicate") /\ UNCHANGED aws
    /\ UNCHANGED <<keyFile, keyWarn, seen, base, serial, started, wrote, dbCall>>

\* ----------------------------------------------------------- target group
\* line 225: the target groups of this name (TargetGroupNotFoundException when
\* there is none, caught at line 228)
FindTgs(name) == {i \in DOMAIN aws.tgs : aws.tgs[i].name = name}

DescribeTargetGroups(r) ==
    /\ At(r, "target_group", "begin")
    /\ LET found == FindTgs(Cur(r).key) IN
         IF found # {}
           THEN Return(r, First(found), FALSE)
           ELSE Goto(r, "create", 0, FALSE)
    /\ UNCHANGED <<aws, keyFile, keyWarn, seen, base, serial, started, wrote, dbCall>>

\* lines 229-237: create_target_group; no health-check setting is passed, so
\* the group gets the provider's defaults.  A repeated call with the same name
\* and settings is answered with the existing group, one with other settings
\* with DuplicateTargetGroupName.
CreateTargetGroup(r) ==
    /\ At(r, "target_group", "create")
    /\ LET found == FindTgs(Cur(r).key) IN
         IF found = {}
           THEN /\ aws' = [aws EXCEPT !.tgs =
                             Put(@, NewId(r), [name |-> Cur(r).key, vpc |-> Arg(r, 1),
                                        path |-> "/", interval |-> 30, timeout |-> 5,
                                        healthy |-> 5, unhealthy |-> 2, targets |-> {}])]
                /\ Return(r, NewId(r), TRUE)
           ELSE IF aws.tgs[First(found)].vpc = Arg(r, 1)
                  THEN Return(r, First(found), TRUE) /\ UNCHANGED aws
                  ELSE Raise(r, "duplicate") /\ UNCHANGED aws
    /\ UNCHANGED <<keyFile, keyWarn, seen, base, serial, started, wrote, dbCall>>

\* line 383: register_targets with both private instances (InvalidTarget when
\* one of them is not running)
RegisterTargets(r) ==
    LET states == {aws.instances[i].state : i \in {Arg(r, 2), Arg(r, 3)}} IN
    /\ At(r, "register", "begin")
    /\ seen' = [seen EXCEPT ![r].targets = states]
    /\ IF states = {"running"}
         THEN /\ aws' = [aws EXCEPT !.tgs[Arg(r, 1)].targets = @ \cup {Arg(r, 2), Arg(r, 3)}]
              /\ Return(r, 0, FALSE)
         ELSE Raise(r, "other") /\ UNCHANGED aws
    /\ UNCHANGED <<keyFile, keyWarn, base, serial, started, wrote, dbCall>>

\* --------------------------------------------------------------- listener
\* lines 240-244: the port-80 listeners of the load balancer
FindListeners(lb) ==
    {i \in DOMAIN aws.listeners : aws.listeners[i].lb = lb /\ aws.listeners[i].port = 80}

DescribeListeners(r) ==
    /\ At(r, "listener", "begin")
    /\ LET found == FindListeners(Arg(r, 1)) IN
         IF found # {}
           THEN Return(r, First(found), FALSE)
           ELSE Goto(r, "create", 0, FALSE)
    /\ UNCHANGED <<aws, keyFile, keyWarn, seen, base, serial, started, wrote, dbCall>>

\* lines 246-253: create_listener (DuplicateListener when the balancer has a
\* listener on the port)
CreateListener(r) ==
    /\ At(r, "listener", "create")
    /\ IF FindListeners(Arg(r, 1)) # {}
         THEN Raise(r, "duplicate") /\ UNCHANGED <<aws, seen>>
         ELSE /\ aws' = [aws EXCEPT !.listeners =
                           Put(@, NewId(r), [lb |-> Arg(r, 1), port |-> 80, tg |-> Arg(r, 2)])]
              /\ seen' = [seen EXCEPT ![r].lb = aws.lbs[Arg(r, 1)].state]
              /\ Return(r, NewId(r), TRUE)
    /\ UNCHANGED <<keyFile, keyWarn, base, serial, started, wrote, dbCall>>

\* ----------------------------------------------------------- health check
\* lines 256-260: only the path is compared
DescribeHealthCheck(r) ==
    /\ At(r, "health_check", "begin")
    /\ IF aws.tgs[Arg(r, 1)].path = Cur(r).key
         THEN Return(r, 0, FALSE)
         ELSE Goto(r, "modify", 0, FALSE)
    /\ UNCHANGED <<aws, keyFile, keyWarn, seen, base, serial, started, wrote, dbCall>>

\* lines 261-272
ModifyTargetGroup(r) ==
    /\ At(r, "health_check", "modify")
    /\ aws' = [aws EXCEPT !.tgs[Arg(r, 1)] =
                 [@ EXCEPT !.path = Cur(r).key, !.interval = 30, !.timeout = 5,
                           !.healthy = 3, !.unhealthy = 3]]
    /\ Return(r, 0, FALSE)
    /\ UNCHANGED <<keyFile, keyWarn, seen, base, serial, started, wrote, dbCall>>

\* ------------------------------------------------ failure and interruption
\* a run that, when it fails, deletes the VPCs it created (a rollback)
Mut_ProviderError(r) ==
    /\ status[r] = "running"
    /\ Raise(r, "other")
    /\ aws' = [aws EXCEPT !.vpcs =
                 [j \in {k \in DOMAIN @ : k \div (Len(Flow) + 1) # serial[r]} |-> @[j]]]
    /\ UNCHANGED <<keyFile, keyWarn, seen, base, serial, started, wrote, dbCall>>

\* The provider call that is next raises an error other than the ones handled
\* above (throttling, a quota, no permission, the network), or the process is
\* killed before it issues the call.  The module-level code has no handler:
\* the run ends at this statement, and what it created stays.
ProviderError(r) ==
    /\ status[r] = "running"
    /\ Raise(r, "other")
    /\ UNCHANGED <<aws, keyFile, keyWarn, seen, base, serial, started, wrote, dbCall>>

\* ------------------------------------------------- the provider's own steps
\* a pending NAT gateway becomes available
NatAvailable(i) ==
    /\ aws.nats[i].state = "pending"
    /\ aws' = [aws EXCEPT !.nats[i].state = "available"]
    /\ UNCHANGED <<keyFile, status, pc, step, env, loc, err, made, keyWarn, seen, base, serial, started, wrote, dbCall, turn, preempts>>

\* a pending NAT gateway fails (no capacity, address in use, ...) and stays so
NatFailed(i) ==
    /\ aws.nats[i].state = "pending"
    /\ aws' = [aws EXCEPT !.nats[i].state = "failed"]
    /\ UNCHANGED <<keyFile, status, pc, step, env, loc, err, made, keyWarn, seen, base, serial, started, wrote, dbCall, turn, preempts>>

\* a provisioning load balancer becomes active
LbActive(i) ==
    /\ aws.lbs[i].state = "provisioning"
    /\ aws' = [aws EXCEPT !.lbs[i].state = "active"]
    /\ UNCHANGED <<keyFile, status, pc, step, env, loc, err, made, keyWarn, seen, base, serial, started, wrote, dbCall, turn, preempts>>

\* a pending instance becomes running
InstanceRunning(i) ==
    /\ aws.instances[i].state = "pending"
    /\ aws' = [aws EXCEPT !.instances[i].state = "running"]
    /\ UNCHANGED <<keyFile, status, pc, step, env, loc, err, made, keyWarn, seen, base, serial, started, wrote, dbCall, turn, preempts>>

Provider ==
    \/ \E i \in DOMAIN aws.nats : NatAvailable(i) \/ NatFailed(i)
    \/ \E i \in DOMAIN aws.lbs : LbActive(i)
    \/ \E i \in DOMAIN aws.instances : InstanceRunning(i)

\* ------------------------------------------------------- starting the script
\* the interpreter starts at line 324 with fresh module variables
Fresh(r) ==
    /\ status' = [status EXCEPT ![r] = "running"]
    /\ pc' = [pc EXCEPT ![r] = 1]
    /\ step' = [step EXCEPT ![r] = "begin"]
    /\ env' = [env EXCEPT ![r] = NoEnv]
    /\ loc' = [loc EXCEPT ![r] = 0]
    /\ err' = [err EXCEPT ![r] = "none"]
    /\ made' = [made EXCEPT ![r] = {}]
    /\ keyWarn' = [keyWarn EXCEPT ![r] = FALSE]
    /\ seen' = [seen EXCEPT ![r] = NoSeen]
    /\ serial' = [serial EXCEPT ![r] = started + 1]
    /\ wrote' = [wrote EXCEPT ![r] = FALSE]
    /\ dbCall' = [dbCall EXCEPT ![r] = NoDbCall]
    /\ UNCHANGED <<aws, keyFile>>
    /\ Sched(r)

\* Somebody starts the script, whether or not another run is in progress.
\* (Run 2 is the second one to exist: the two are interchangeable.)
StartRace(r) ==
    /\ status[r] # "running"
    /\ started < MaxRaceRuns
    /\ r = 1 \/ started > 0
    /\ started' = started + 1
    /\ base' = [base EXCEPT ![r] = NoEnv]
    /\ Fresh(r)

\* The script is started at terminal 1 when no run is in progress; base
\* remembers what the preceding run resolved if it ran to line 393.
Start ==
    /\ \A q \in Runs : status[q] # "running"
    /\ started < MaxRuns
    /\ started' = started + 1
    /\ base' = [base EXCEPT ![1] = IF status[1] = "done" THEN env[1] ELSE NoEnv]
    /\ Fresh(1)

Call(r) ==
    \/ DescribeKeyPairs(r) \/ CreateKeyPair(r) \/ WriteKeyFile(r)
    \/ DescribeVpcs(r) \/ CreateVpc(r) \/ CreateTagsVpc(r)
    \/ ModifyVpcDnsSupport(r) \/ ModifyVpcDnsHostnames(r)
    \/ DescribeSubnets(r) \/ CreateSubnet(r) \/ CreateTagsSubnet(r)
    \/ ModifySubnetAttribute(r)
    \/ DescribeInternetGateways(r) \/ CreateInternetGateway(r)
    \/ AttachInternetGateway(r)
    \/ DescribeNatGateways(r) \/ AllocateAddress(r) \/ CreateNatGateway(r)
    \/ WaitForNat(r) \/ NatSleep(r)
    \/ DescribeRouteTables(r) \/ CreateRouteTable(r) \/ CreateTagsRouteTable(r)
    \/ DescribeRoutes(r) \/ CreateRoute(r)
    \/ DescribeAssociations(r) \/ AssociateRouteTable(r)
    \/ DescribeSecurityGroups(r) \/ CreateSecurityGroup(r)
    \/ AuthorizeSecurityGroupIngress(r)
    \/ DescribeInstances(r) \/ RunInstances(r)
    \/ DescribeLoadBalancers(r) \/ CreateLoadBalancer(r)
    \/ DescribeTargetGroups(r) \/ CreateTargetGroup(r)
    \/ RegisterTargets(r)
    \/ DescribeListeners(r) \/ CreateListener(r)
    \/ DescribeHealthCheck(r) \/ ModifyTargetGroup(r)

\* one run at a time
Next ==
    \/ Start
    \/ \E r \in Runs : Call(r)
    \/ \E r \in Runs : ProviderError(r)
    \/ Provider

\* runs interleaved call by call
RaceNext ==
    \/ \E r \in Runs : StartRace(r)
    \/ \E r \in Runs : Call(r)
    \/ \E r \in Runs : ProviderError(r)
    \/ Provider

Spec == Init /\ [][Next]_vars

\* The interpreter of a started run keeps executing, and the provider finishes
\* what it has begun; nobody is bound to interrupt a run or to start one.
FairSpec == Spec /\ WF_vars(\E r \in Runs : Call(r)) /\ WF_vars(Provider)

RaceSpec == Init /\ [][RaceNext]_vars

\* ------------------------------------------------- settings changed outside
\* What describe_target_groups answers at line 256 is whatever the group is set
\* to at that moment: the group is found by name (line 225), and its health
\* check can have been set by anybody with access to the account.
HealthCheckSettings ==
    [path |-> {"/", "/index.html"}, interval |-> {10, 30}, timeout |-> {5, 6},
     healthy |-> {3, 5}, unhealthy |-> {2, 3}]

\* somebody else changes one setting of the health check of a target group
EditHealthCheck(i, k, v) ==
    /\ aws.tgs[i][k] # v
    /\ aws' = [aws EXCEPT !.tgs[i][k] = v]
    /\ UNCHANGED <<keyFile, status, pc, step, env, loc, err, made, keyWarn, seen, base, serial, started, wrote, dbCall, turn, preempts>>

DriftNext ==
    \/ Next
    \/ \E i \in DOMAIN aws.tgs : \E k \in DOMAIN HealthCheckSettings :
          \E v \in HealthCheckSettings[k] : EditHealthCheck(i, k, v)

\* runs one at a time on an account whose target groups others may edit
DriftSpec == Init /\ [][DriftNext]_vars

\* ---------------------------------------------------------------- RDS
\* Line 388, the call of get_or_create_rds, is commented out in the script as
\* it stands; with the line in force it is executed after line 385.
RdsStmt ==
    Stmt("rds", <<"vpc", "private_subnet_1", "private_subnet_2", "private_sg">>,
         "salman-rds", "", "none")

\* line 283
SubnetGroupName == "salman-rds-subnet-group"

\* lines 278-282: the instance of this identifier exists
DescribeDbInstances(r) ==
    /\ status[r] = "done"
    /\ dbCall[r].step = "none"
    /\ dbCall' = [dbCall EXCEPT ![r].step =
                    IF \E d \in aws.dbs : d.name = RdsStmt.key
                      THEN "returned" ELSE "group"]
    /\ UNCHANGED <<aws, keyFile, status, pc, step, env, loc, err, made, keyWarn, seen, base, serial, started, turn, preempts, wrote>>

\* lines 284-292: create_db_subnet_group inside try / bare except.  The call
\* succeeds (e = "none"), is answered DBSubnetGroupAlreadyExists ("duplicate")
\* or fails for another reason ("other": a quota, no permission, subnets that
\* do not cover two zones, throttling); whatever it raises is swallowed at
\* lines 291-292 and line 293 is next.
CreateDbSubnetGroup(r, e) ==
    /\ dbCall[r].step = "group"
    /\ LET exists == \E g \in aws.dbGroups : g.name = SubnetGroupName IN
         /\ e = "none" => ~exists
         /\ e = "duplicate" => exists
    /\ aws' = IF e = "none"
                THEN [aws EXCEPT !.dbGroups = @ \cup
                        {[name |-> SubnetGroupName,
                          subnets |-> {env[r][RdsStmt.args[2]], env[r][RdsStmt.args[3]]}]}]
                ELSE aws
    /\ dbCall' = [dbCall EXCEPT ![r].step = "create", ![r].raised = e]
    /\ UNCHANGED <<keyFile, status, pc, step, env, loc, err, made, keyWarn, seen, base, serial, started, turn, preempts, wrote>>

\* lines 293-307: create_db_instance (DBSubnetGroupNotFoundFault when the
\* subnet group does not exist, DBInstanceAlreadyExists when the instance does)
CreateDbInstance(r) ==
    /\ dbCall[r].step = "create"
    /\ LET ok == /\ \E g \in aws.dbGroups : g.name = SubnetGroupName
                 /\ ~ \E d \in aws.dbs : d.name = RdsStmt.key IN
         /\ aws' = IF ok
                     THEN [aws EXCEPT !.dbs = @ \cup
                             {[name |-> RdsStmt.key, group |-> SubnetGroupName,
                               sg |-> env[r][RdsStmt.args[4]]]}]
                     ELSE aws
         /\ dbCall' = [dbCall EXCEPT ![r].step = IF ok THEN "returned" ELSE "failed",
                                     ![r].issued = TRUE]
    /\ UNCHANGED <<keyFile, status, pc, step, env, loc, err, made, keyWarn, seen, base, serial, started, turn, preempts, wrote>>

\* describe_db_instances or create_db_instance raises another error, or the
\* process is killed: nothing outside lines 284-292 is inside a try
RdsError(r) ==
    /\ status[r] = "done"
    /\ dbCall[r].step \in {"none", "group", "create"}
    /\ dbCall' = [dbCall EXCEPT ![r].step = "failed"]
    /\ UNCHANGED <<aws, keyFile, status, pc, step, env, loc, err, made, keyWarn, seen, base, serial, started, turn, preempts, wrote>>

RdsCall(r) ==
    \/ DescribeDbInstances(r)
    \/ \E e \in {"none", "duplicate", "other"} : CreateDbSubnetGroup(r, e)
    \/ CreateDbInstance(r)

RdsNext ==
    \/ Next
    \/ \E r \in Runs : RdsCall(r)
    \/ \E r \in Runs : RdsError(r)

\* the script with line 388 in force, runs one at a time
RdsSpec == Init /\ [][RdsNext]_vars

\* ======================================================================
\* Properties
\* ======================================================================
CreatedKinds == {"vpcs", "subnets", "igws", "nats", "rts", "sgs", "instances", "lbs", "tgs",
                 "listeners"}

\* the number of resources of a kind the account holds
Count(kind) == Cardinality(DOMAIN aws[kind])

\* C1 (idempotence of a full run): a run started after a run that reached the
\* success message at line 393, with nothing else touching the account, issues
\* no creating call, and every variable it assigns gets the provider id the
\* preceding run got.
C1_Idempotent ==
    \A r \in Runs :
        base[r] # NoEnv =>
            /\ made[r] = {}
            /\ \A v \in EnvVars : env[r][v] # 0 => env[r][v] = base[r][v]
            /\ status[r] = "done" => env[r] = base[r]

\* a second run has completed after a completed first run
C1_Witness ==
    \E r \in Runs : base[r] # NoEnv /\ status[r] = "done" /\ env[r]["listener_arn"] # 0

\* the resources a record of the account refers to exist
RefsExist ==
    /\ \A i \in DOMAIN aws.subnets : aws.subnets[i].vpc \in DOMAIN aws.vpcs
    /\ \A i \in DOMAIN aws.igws : aws.igws[i].vpc \in DOMAIN aws.vpcs \cup {0}
    /\ \A i \in DOMAIN aws.nats :
          aws.nats[i].subnet \in DOMAIN aws.subnets /\ aws.nats[i].eip \in aws.eips
    /\ \A i \in DOMAIN aws.rts :
          /\ aws.rts[i].vpc \in DOMAIN aws.vpcs
          /\ aws.rts[i].assocs \subseteq DOMAIN aws.subnets
          /\ \A x \in aws.rts[i].routes :
                x.target \in (IF x.via = "igw_id" THEN DOMAIN aws.igws ELSE DOMAIN aws.nats)
    /\ \A i \in DOMAIN aws.sgs : aws.sgs[i].vpc \in DOMAIN aws.vpcs
    /\ \A i \in DOMAIN aws.instances :
          aws.instances[i].subnet \in DOMAIN aws.subnets /\ aws.instances[i].sg \in DOMAIN aws.sgs
    /\ \A i \in DOMAIN aws.lbs :
          aws.lbs[i].subnets \subseteq DOMAIN aws.subnets /\ aws.lbs[i].sg \in DOMAIN aws.sgs
    /\ \A i \in DOMAIN aws.tgs :
          aws.tgs[i].vpc \in DOMAIN aws.vpcs /\ aws.tgs[i].targets \subseteq DOMAIN aws.instances
    /\ \A i \in DOMAIN aws.listeners :
          aws.listeners[i].lb \in DOMAIN aws.lbs /\ aws.listeners[i].tg \in DOMAIN aws.tgs

\* C2 (dependency ordering): while a run executes a statement, every variable
\* the statement passes has been assigned a provider id by the find-or-create
\* before it, so each create call carries the ids of resources that exist: no
\* record of the account refers to a resource that is not there.
C2_DependencyOrder ==
    /\ \A r \in Runs :
          status[r] = "running" => \A k \in DOMAIN Cur(r).args : Arg(r, k) # 0
    /\ RefsExist

\* a listener has been created: the last create of the chain VPC, subnets,
\* security group, load balancer, target group, listener
C2_Witness ==
    \E r \in Runs : Len(Flow) - 1 \in made[r] /\ Count("listeners") = 1

\* C3 (no duplication under partial failure), as claimed: once a run has
\* completed, whatever runs were interrupted before it, the account holds
\* exactly one VPC, one internet gateway, one NAT gateway, one elastic IP and
\* one resource for every other node.
C3_Original ==
    (\E r \in Runs : status[r] = "done") =>
        /\ Count("vpcs") = 1
        /\ Count("igws") = 1
        /\ Count("nats") = 1
        /\ Cardinality(aws.eips) = 1
        /\ Count("subnets") = 4
        /\ Count("rts") = 2
        /\ Count("sgs") = 2
        /\ Count("instances") = 3
        /\ Count("lbs") = 1
        /\ Count("tgs") = 1
        /\ Count("listeners") = 1

\* C4 (no duplication under concurrent re-runs), as claimed: no two resources
\* of the account answer the same lookup key.
C4_Original ==
    /\ Cardinality(FindVpcs) <= 1
    /\ \A i \in DOMAIN aws.subnets :
          Cardinality(FindSubnets(aws.subnets[i].vpc, aws.subnets[i].cidr)) <= 1
    /\ \A i \in DOMAIN aws.nats : Cardinality(FindNats(aws.nats[i].subnet)) <= 1
    /\ \A i \in DOMAIN aws.rts :
          aws.rts[i].name # "" =>
              Cardinality(FindRouteTables(aws.rts[i].vpc, aws.rts[i].name)) <= 1
    /\ \A i \in DOMAIN aws.sgs : Cardinality(FindSgs(aws.sgs[i].name, aws.sgs[i].vpc)) <= 1
    /\ \A i \in DOMAIN aws.instances : Cardinality(FindInstances(aws.instances[i].name)) <= 1

\* the statements that call the function fn
StmtsOf(fn) == {i \in DOMAIN Flow : Flow[i].fn = fn}

\* C5 (readiness after create for asynchronous kinds), as claimed: when a run
\* has created the NAT gateway, it issues create_route for the private route
\* only with the gateway available; when it has created the load balancer, it
\* issues create_listener only with the balancer active.
C5_Original ==
    \A r \in Runs :
        /\ (made[r] \cap StmtsOf("nat") # {} /\ seen[r].nat # "none") =>
              seen[r].nat = "available"
        /\ (made[r] \cap StmtsOf("alb") # {} /\ seen[r].lb # "none") =>
              seen[r].lb = "active"

\* run r is inside wait_for_nat
Waiting(r) == status[r] = "running" /\ Cur(r).fn = "nat" /\ step[r] \in {"wait", "sleep"}

\* C6 (bounded readiness polling), as claimed: a run that waits for the NAT
\* gateway leaves the wait, whatever the gateway does.
C6_Original == \A r \in Runs : Waiting(r) ~> ~Waiting(r)

\* the statements whose result statement i uses, directly or through others
RECURSIVE Needs(_)
Needs(i) ==
    LET direct == {j \in DOMAIN Flow :
                     Flow[j].out # "none" /\ \E k \in DOMAIN Flow[i].args :
                                                Flow[i].args[k] = Flow[j].out}
    IN  direct \cup UNION {Needs(j) : j \in direct}

\* C7 (partial failure containment), as claimed: when a run has failed at a
\* statement, every statement that does not use that statement's result,
\* directly or through others, has been executed by the run.
C7_Original ==
    \A r \in Runs :
        status[r] = "failed" =>
            \A i \in DOMAIN Flow : (i # pc[r] /\ pc[r] \notin Needs(i)) => i < pc[r]

\* C8 (duplicate-exists is success), as claimed: a create call answered with
\* a duplicate / already-exists error does not end the run.
C8_Original == \A r \in Runs : err[r] = "duplicate" => status[r] # "failed"

\* C9 (unavailable key material is surfaced), as claimed: a run that met the
\* key pair at the provider without the local key file launches no instance.
C9_Original ==
    \A r \in Runs : keyWarn[r] => made[r] \cap StmtsOf("instance") = {}

\* what a step keeps: every resource, route, association, registered target,
\* gateway attachment, and the key pair
Kept ==
    /\ \A k \in CreatedKinds : DOMAIN aws[k] \subseteq DOMAIN aws'[k]
    /\ aws.eips \subseteq aws'.eips
    /\ aws.key => aws'.key
    /\ \A i \in DOMAIN aws.rts :
          /\ aws.rts[i].routes \subseteq aws'.rts[i].routes
          /\ aws.rts[i].assocs \subseteq aws'.rts[i].assocs
    /\ \A i \in DOMAIN aws.tgs : aws.tgs[i].targets \subseteq aws'.tgs[i].targets
    /\ \A i \in DOMAIN aws.igws : aws.igws[i].vpc # 0 => aws'.igws[i].vpc = aws.igws[i].vpc

\* C10 (additive only): no step of any run, completed or interrupted, removes
\* a resource, a route, an association or a registered target from the
\* account; a run that fails leaves what it created.
C10_Additive == [][Kept]_vars

\* a run has failed after it created instances, and they are still there
C10_Witness ==
    \E r \in Runs :
        /\ status[r] = "failed"
        /\ made[r] \cap StmtsOf("instance") # {}
        /\ Count("instances") > 0

\* C11 (subnet flag drift is repaired), as claimed: a subnet that
\* get_or_create_subnet has returned for a call with public=True has
\* public-IP-on-launch enabled.
C11_Original ==
    \A r \in Runs : \A i \in StmtsOf("subnet") :
        (Flow[i].opt = "public" /\ env[r][Flow[i].out] # 0) =>
            aws.subnets[env[r][Flow[i].out]].mapPublic

\* the health check that setup_target_group_health_check is to establish
Desired(tg, path) ==
    /\ tg.path = path
    /\ tg.interval = 30 /\ tg.timeout = 5
    /\ tg.healthy = 3 /\ tg.unhealthy = 3

\* C12 (target-group health-check drift is repaired), as claimed:
\* setup_target_group_health_check goes on to modify_target_group exactly when
\* the path or one of interval, timeout and the two thresholds it observes
\* differs from the desired one, and when it returns all five are as desired.
C12_Original ==
    [][\A r \in Runs :
         (status[r] = "running" /\ Cur(r).fn = "health_check") =>
            /\ (step[r] = "begin" /\ (step'[r] = "modify" \/ status'[r] = "done")) =>
                  ((step'[r] = "modify") <=> ~Desired(aws.tgs[Arg(r, 1)], Cur(r).key))
            /\ status'[r] = "done" => Desired(aws'.tgs[Arg(r, 1)], Cur(r).key)]_vars

\* C13 (only "already exists" is absorbed when creating the DB subnet group),
\* as claimed: when create_db_subnet_group fails with an error other than
\* already-exists, get_or_create_rds does not issue create_db_instance.
C13_Original ==
    \A r \in Runs : dbCall[r].raised = "other" => ~dbCall[r].issued

\* C14 (key file written only on creation): a run has written the key file
\* only if it created the key pair; a run that created the key pair has
\* written the file by the time get_or_create_keypair returns; and the file
\* changes in no step other than the write that follows create_key_pair, so a
\* run that finds the key pair at the provider leaves the file as it is.
C14_KeyFileOnlyOnCreate ==
    /\ [](\A r \in Runs :
            /\ wrote[r] => made[r] \cap StmtsOf("keypair") # {}
            /\ (made[r] \cap StmtsOf("keypair") # {} /\ Cur(r).fn # "keypair") => wrote[r])
    /\ [][keyFile' # keyFile =>
            \E r \in Runs : /\ At(r, "keypair", "write")
                            /\ made[r] \cap StmtsOf("keypair") # {}
                            /\ wrote'[r]]_vars

\* the second run has found the key pair, has gone through the script without
\* writing, and the file of the first run is there
C14_Witness ==
    \E r \in Runs :
        /\ status[r] = "done"
        /\ serial[r] = 2
        /\ ~wrote[r]
        /\ made[r] \cap StmtsOf("keypair") = {}
        /\ keyFile /\ aws.key

\* the routes of table rt to a destination block
RoutesTo(rt, destination) == {x \in aws.rts[rt].routes : x.destination = destination}

\* C15 (route created only if absent): ensure_route goes on to create_route
\* exactly when the table has no route to the destination, and the lookup
\* changes nothing; when it finds a route, whatever its target, it returns and
\* the account is as it was; a create_route that succeeds adds the one route
\* to a table that had none to the destination; once ensure_route has returned
\* the table has a route to the destination, and no table ever holds two
\* routes to one destination.
C15_RouteOnlyIfAbsent ==
    /\ [](/\ \A r \in Runs : \A i \in StmtsOf("ensure_route") :
               (status[r] \in {"running", "done"} /\ (pc[r] > i \/ status[r] = "done")) =>
                   RoutesTo(env[r][Flow[i].args[1]], Flow[i].key) # {}
          /\ \A t \in DOMAIN aws.rts : \A x, y \in aws.rts[t].routes :
               x.destination = y.destination => x = y)
    /\ [][\A r \in Runs :
            /\ (/\ At(r, "ensure_route", "begin")
                /\ status'[r] = "running"
                /\ step'[r] = "create" \/ pc'[r] = pc[r] + 1) =>
                   /\ (step'[r] = "create") <=> (RoutesTo(Arg(r, 1), Cur(r).key) = {})
                   /\ aws' = aws
                   /\ made'[r] = made[r]
            /\ (At(r, "ensure_route", "create") /\ pc'[r] = pc[r] + 1) =>
                   /\ RoutesTo(Arg(r, 1), Cur(r).key) = {}
                   /\ aws'.rts[Arg(r, 1)].routes =
                        aws.rts[Arg(r, 1)].routes \cup
                          {[destination |-> Cur(r).key, via |-> Cur(r).opt,
                            target |-> Arg(r, 2)]}]_vars

\* a later run has found both default routes and has gone past the second
\* ensure_route without a create_route; the first run created them
C15_Witness ==
    \E r \in Runs :
        /\ serial[r] = 2
        /\ status[r] = "running"
        /\ \A i \in StmtsOf("ensure_route") : pc[r] > i
        /\ made[r] \cap StmtsOf("ensure_route") = {}
        /\ \A t \in DOMAIN aws.rts : Cardinality(aws.rts[t].routes) = 1

\* C16 (the private default route is only created through an available NAT
\* gateway), as claimed: whenever a run issues create_route with nat_id, the
\* NAT gateway is available.
C16_Original ==
    \A r \in Runs : seen[r].nat \in {"none", "available"}

\* C17 (only running instances are registered as targets), as claimed:
\* whenever a run issues register_targets, both instances are running.
C17_Original ==
    \A r \in Runs : seen[r].targets \subseteq {"running"}

\* C18 (a security group returned by get_or_create_sg always carries its
\* ingress rules), as claimed: when a run has reached the end of the script,
\* both security groups it used have their ingress rules.
C18_Original ==
    \A r \in Runs : status[r] = "done" =>
        \A i \in StmtsOf("sg") : aws.sgs[env[r][Flow[i].out]].rules

====
